---- MODULE Spec2Model ----
(***************************************************************************)
(* Model of assistantProject.py: the command loop (main), project creation *)
(* (create_project / generate_project_plan), the dependency-ordered file   *)
(* generator (generate_files_from_plan.create_file_entry) and the review   *)
(* loop (handle_suggestion).                                               *)
(*                                                                         *)
(* Text is a sequence of tokens (a word, " ", "\n", a fence, a JSON        *)
(* document); a file name is a sequence of characters, so that endswith(), *)
(* strip() and split() are computed as the code computes them.             *)
(***************************************************************************)
EXTENDS Integers, Sequences, FiniteSets, TLC

\* ------------------------------------------------------------------ bounds
MaxCmds == 2        \* commands read by main in one session
MaxRevise == 1      \* 'f' decisions taken in one review session
MaxDepth == 4       \* nested create_file_entry calls before RecursionError
MaxPlanFeedback == 1 \* 'f' answers taken in one plan approval loop
MaxPasses == 1      \* plans approved in one session
MaxLoads == 2       \* calls of load_project_plan made on the plan store
MaxReplyLen == 5    \* tokens in one oracle reply put to the plan parser

\* ------------------------------------------------------- file names, texts
A_css == <<"a", ".", "c", "s", "s">>
B_js == <<"b", ".", "j", "s">>
M_md == <<"m", ".", "m", "d">>
X_html == <<"x", ".", "h", "t", "m", "l">>
G_js == <<"g", ".", "j", "s">>

Names == {A_css, B_js, M_md, X_html, G_js}

NoFile == <<"<absent>">>
T1 == <<"v1">>
T2 == <<"v2">>
Empty == <<>>

\* ---------------------------------------------------- PROJECT_RESOURCE_EXTS
PROJECT_RESOURCE_EXTS ==
  [website |-> << <<".", "c", "s", "s">>, <<".", "j", "s">>,
                  <<".", "j", "s", "o", "n">> >>,
   python_classroom |-> << <<".", "p", "y">>, <<".", "i", "p", "y", "n", "b">>,
                           <<".", "c", "s", "v">>, <<".", "j", "s", "o", "n">>,
                           <<".", "m", "d">> >>,
   default |-> << <<".", "c", "s", "s">>, <<".", "j", "s">>, <<".", "p", "y">>,
                  <<".", "j", "s", "o", "n">>, <<".", "c", "s", "v">>,
                  <<".", "m", "d">> >>]

ProjectTypes == {"website", "python_classroom", "misc"}

\* str.endswith
endswith(s, e) ==
  /\ Len(s) >= Len(e)
  /\ SubSeq(s, Len(s) - Len(e) + 1, Len(s)) = e

\* a variant without the fall back to the default list
is_resource_file_nofallback(filename, ptype) ==
  LET exts == IF ptype \in DOMAIN PROJECT_RESOURCE_EXTS
              THEN PROJECT_RESOURCE_EXTS[ptype]
              ELSE <<>>
  IN \E i \in 1..Len(exts) : endswith(filename, exts[i])

is_resource_file(filename, ptype) ==
  LET exts == IF ptype \in DOMAIN PROJECT_RESOURCE_EXTS
              THEN PROJECT_RESOURCE_EXTS[ptype]
              ELSE PROJECT_RESOURCE_EXTS["default"]
  IN \E i \in 1..Len(exts) : endswith(filename, exts[i])

\* ------------------------------------------------------------- str.strip
IsSpace(t) == t \in {" ", "\n"}

RECURSIVE lstrip(_)
lstrip(s) == IF s # <<>> /\ IsSpace(Head(s)) THEN lstrip(Tail(s)) ELSE s

RECURSIVE rstrip(_)
rstrip(s) ==
  IF s # <<>> /\ IsSpace(s[Len(s)]) THEN rstrip(SubSeq(s, 1, Len(s) - 1)) ELSE s

strip(s) == rstrip(lstrip(s))

\* ------------------------------------------------------------ run_ollama
\* One outcome of the subprocess: it raised, or it exited with a return code
\* and its decoded stdout.
OracleOutcome(raised, returncode, stdout) ==
  [raised |-> raised, returncode |-> returncode, stdout |-> stdout]

run_ollama(o) ==
  IF o.raised THEN Empty
  ELSE IF o.returncode # 0 THEN Empty
  ELSE strip(o.stdout)

FileOutcomes ==
  { OracleOutcome(TRUE, 0, Empty),
    OracleOutcome(FALSE, 1, T1),
    OracleOutcome(FALSE, 0, <<" ", "\n">>),
    OracleOutcome(FALSE, 0, <<" ", "v1", "\n">>),
    OracleOutcome(FALSE, 0, T2) }

\* ------------------------------------------------------ plan documents
FileSpec(n, d, deps) == [name |-> n, description |-> d, dependencies |-> deps]

\* Python values a plan can be: None, a number, a list, a dict.
PyNone == [tag |-> "none", items |-> <<>>, has_files |-> FALSE]
PyNum == [tag |-> "num", items |-> <<>>, has_files |-> FALSE]
PyList(xs) == [tag |-> "list", items |-> xs, has_files |-> FALSE]
PyDict(fs) == [tag |-> "dict", items |-> fs, has_files |-> TRUE]
PyEmptyDict == [tag |-> "dict", items |-> <<>>, has_files |-> FALSE]

CyclePlan ==
  PyDict(<< FileSpec(A_css, <<"d1">>, <<B_js>>), FileSpec(B_js, <<"d2">>, <<A_css>>) >>)

SitePlan ==
  PyDict(<< FileSpec(X_html, <<"d1">>, <<A_css, G_js, M_md>>),
            FileSpec(A_css, <<"d2">>, <<>>),
            FileSpec(M_md, <<"d3">>, <<A_css>>) >>)

\* The JSON documents the oracle is taken to write, each one token of text.
JsonDocs ==
  [doc_cycle |-> CyclePlan,
   doc_site |-> SitePlan,
   doc_nofiles |-> PyDict(<<>>),
   doc_list |-> PyList(<<A_css, B_js>>),
   doc_obj |-> PyEmptyDict,
   doc_num |-> PyNum,
   doc_null |-> PyNone]

JSONDecodeError == [tag |-> "JSONDecodeError", items |-> <<>>, has_files |-> FALSE]

\* json.loads: surrounding whitespace is allowed around the one document.
json_loads(text) ==
  LET t == strip(text)
  IN IF Len(t) = 1 /\ t[1] \in DOMAIN JsonDocs THEN JsonDocs[t[1]]
     ELSE JSONDecodeError

\* ------------------------------------------------- json.dump and json.load
\* The text of plan.json is a sequence of tokens: the punctuation of JSON,
\* the newline, the indentation unit of two spaces, and inside a string one
\* token for each character (escaped where json.dump escapes it).
json_escape(c) ==
  CASE c = "\"" -> "\\\""
    [] c = "\\" -> "\\\\"
    [] c = "\n" -> "\\n"
    [] c = "<e-acute>" -> "\\u00e9"
    [] OTHER -> c

json_unescape(t) ==
  CASE t = "\\\"" -> "\""
    [] t = "\\\\" -> "\\"
    [] t = "\\n" -> "\n"
    [] t = "\\u00e9" -> "<e-acute>"
    [] OTHER -> t

json_string(s) ==
  <<"\"">> \o [i \in 1..Len(s) |-> json_escape(s[i])] \o <<"\"">>

\* indent=2: a newline and two spaces for each level of nesting
indent(level) == <<"\n">> \o [i \in 1..level |-> "  "]

RECURSIVE join_items(_, _)
join_items(texts, sep) ==
  IF texts = <<>> THEN <<>>
  ELSE IF Len(texts) = 1 THEN texts[1]
  ELSE texts[1] \o sep \o join_items(Tail(texts), sep)

json_array(texts, level) ==
  IF texts = <<>> THEN <<"[", "]">>
  ELSE <<"[">> \o indent(level + 1)
         \o join_items(texts, <<",">> \o indent(level + 1))
         \o indent(level) \o <<"]">>

json_key(key) == <<"\"", key, "\"", ":", " ">>

json_file(f, level) ==
  <<"{">> \o indent(level + 1)
    \o json_key("name") \o json_string(f.name)
    \o <<",">> \o indent(level + 1)
    \o json_key("description") \o json_string(f.description)
    \o <<",">> \o indent(level + 1)
    \o json_key("dependencies")
    \o json_array([i \in 1..Len(f.dependencies) |->
                     json_string(f.dependencies[i])], level + 1)
    \o indent(level) \o <<"}">>

\* json.dump(plan, f, indent=2) of a dict
json_dump(plan) ==
  IF ~plan.has_files THEN <<"{", "}">>
  ELSE <<"{">> \o indent(1) \o json_key("files")
         \o json_array([i \in 1..Len(plan.items) |->
                          json_file(plan.items[i], 2)], 1)
         \o indent(0) \o <<"}">>

\* The scanner of json.load: what was read and the text left, or a failure.
Parsed(val, rest) == [ok |-> TRUE, val |-> val, rest |-> rest]
ParseFail == [ok |-> FALSE, val |-> <<>>, rest |-> <<>>]

IsJsonSpace(t) == t \in {"\n", "  ", " "}

RECURSIVE skip_ws(_)
skip_ws(t) == IF t # <<>> /\ IsJsonSpace(Head(t)) THEN skip_ws(Tail(t)) ELSE t

\* the one element of a set of one: what the scanner has computed is kept
\* under a name and used from there
Only(S) == CHOOSE r \in S : TRUE

\* the characters of a string up to its closing quote
RECURSIVE scan_string(_, _)
scan_string(t, acc) ==
  IF t = <<>> THEN ParseFail
  ELSE IF Head(t) = "\"" THEN Parsed(acc, Tail(t))
  ELSE scan_string(Tail(t), Append(acc, json_unescape(Head(t))))

parse_string(t0) ==
  Only({ IF t # <<>> /\ Head(t) = "\"" THEN scan_string(Tail(t), <<>>)
         ELSE ParseFail : t \in {skip_ws(t0)} })

\* the elements of an array of strings, after its opening bracket
RECURSIVE parse_strings(_, _)
parse_strings(t0, acc) ==
  Only({ IF t = <<>> THEN ParseFail
         ELSE IF Head(t) = "]" /\ acc = <<>> THEN Parsed(acc, Tail(t))
         ELSE Only({ IF ~s.ok THEN ParseFail
                     ELSE Only({ IF u = <<>> THEN ParseFail
                                 ELSE IF Head(u) = ","
                                      THEN parse_strings(Tail(u), Append(acc, s.val))
                                 ELSE IF Head(u) = "]"
                                      THEN Parsed(Append(acc, s.val), Tail(u))
                                 ELSE ParseFail :
                                 u \in {skip_ws(s.rest)} }) :
                     s \in {parse_string(t)} }) :
         t \in {skip_ws(t0)} })

parse_string_array(t0) ==
  Only({ IF t # <<>> /\ Head(t) = "[" THEN parse_strings(Tail(t), <<>>)
         ELSE ParseFail : t \in {skip_ws(t0)} })

\* a key and its colon
parse_key(t0) ==
  Only({ IF ~k.ok THEN ParseFail
         ELSE Only({ IF u # <<>> /\ Head(u) = ":" THEN Parsed(k.val, Tail(u))
                     ELSE ParseFail : u \in {skip_ws(k.rest)} }) :
         k \in {parse_string(t0)} })

\* the value of a member of a file object, by its key
parse_file_value(key, t) ==
  IF key = <<"dependencies">> THEN parse_string_array(t)
  ELSE IF key \in {<<"name">>, <<"description">>} THEN parse_string(t)
  ELSE ParseFail

\* the file object with one more member
with_member(file, key, val) ==
  CASE key = <<"name">> -> [file EXCEPT !.name = val]
    [] key = <<"description">> -> [file EXCEPT !.description = val]
    [] OTHER -> [file EXCEPT !.dependencies = val]

\* the members of a file object, after its opening brace
RECURSIVE parse_file_members(_, _)
parse_file_members(t0, acc) ==
  Only({ IF ~k.ok THEN ParseFail
         ELSE Only({ IF ~v.ok THEN ParseFail
                     ELSE Only({ IF u = <<>> THEN ParseFail
                                 ELSE IF Head(u) = ","
                                      THEN parse_file_members(
                                             Tail(u),
                                             with_member(acc, k.val, v.val))
                                 ELSE IF Head(u) = "}"
                                      THEN Parsed(
                                             with_member(acc, k.val, v.val),
                                             Tail(u))
                                 ELSE ParseFail :
                                 u \in {skip_ws(v.rest)} }) :
                     v \in {parse_file_value(k.val, k.rest)} }) :
         k \in {parse_key(t0)} })

parse_file(t0) ==
  Only({ IF t # <<>> /\ Head(t) = "{"
         THEN parse_file_members(Tail(t), FileSpec(<<>>, <<>>, <<>>))
         ELSE ParseFail : t \in {skip_ws(t0)} })

\* the elements of an array of file objects, after its opening bracket
RECURSIVE parse_files(_, _)
parse_files(t0, acc) ==
  Only({ IF t = <<>> THEN ParseFail
         ELSE IF Head(t) = "]" /\ acc = <<>> THEN Parsed(acc, Tail(t))
         ELSE Only({ IF ~f.ok THEN ParseFail
                     ELSE Only({ IF u = <<>> THEN ParseFail
                                 ELSE IF Head(u) = ","
                                      THEN parse_files(Tail(u), Append(acc, f.val))
                                 ELSE IF Head(u) = "]"
                                      THEN Parsed(Append(acc, f.val), Tail(u))
                                 ELSE ParseFail :
                                 u \in {skip_ws(f.rest)} }) :
                     f \in {parse_file(t)} }) :
         t \in {skip_ws(t0)} })

parse_file_array(t0) ==
  Only({ IF t # <<>> /\ Head(t) = "[" THEN parse_files(Tail(t), <<>>)
         ELSE ParseFail : t \in {skip_ws(t0)} })

\* the document after its opening brace: no member, or the member "files"
parse_plan_members(u) ==
  IF u = <<>> THEN JSONDecodeError
  ELSE IF Head(u) = "}"
       THEN IF skip_ws(Tail(u)) = <<>> THEN PyEmptyDict ELSE JSONDecodeError
  ELSE Only({ IF ~k.ok \/ k.val # <<"files">> THEN JSONDecodeError
              ELSE Only({ IF ~a.ok THEN JSONDecodeError
                          ELSE Only({ IF /\ e # <<>> /\ Head(e) = "}"
                                         /\ skip_ws(Tail(e)) = <<>>
                                      THEN PyDict(a.val)
                                      ELSE JSONDecodeError :
                                      e \in {skip_ws(a.rest)} }) :
                          a \in {parse_file_array(k.rest)} }) :
              k \in {parse_key(u)} })

\* json.load(f): one document and nothing after it, or JSONDecodeError
json_load(text) ==
  Only({ IF t = <<>> \/ Head(t) # "{" THEN JSONDecodeError
         ELSE Only({ parse_plan_members(u) : u \in {skip_ws(Tail(t))} }) :
         t \in {skip_ws(text)} })

\* str.startswith of the fence marker (three backquotes, the token "<fence>")
IsFence(t) == t \in {"<fence>", "<fence>json"}
startswith_fence(text) == text # <<>> /\ IsFence(text[1])

\* str.split("\n"): the lines of a text, at least one
RECURSIVE split_lines(_, _, _)
split_lines(text, cur, acc) ==
  IF text = <<>> THEN Append(acc, cur)
  ELSE IF Head(text) = "\n" THEN split_lines(Tail(text), <<>>, Append(acc, cur))
  ELSE split_lines(Tail(text), Append(cur, Head(text)), acc)

split(text) == split_lines(text, <<>>, <<>>)

\* "\n".join(lines)
RECURSIVE join(_)
join(lines) ==
  IF lines = <<>> THEN <<>>
  ELSE IF Len(lines) = 1 THEN lines[1]
  ELSE lines[1] \o <<"\n">> \o join(Tail(lines))

\* a variant that drops the first line only
slice_1_m1_keeps_last(lines) == SubSeq(lines, 2, Len(lines))

\* lines[1:-1]
slice_1_m1(lines) == SubSeq(lines, 2, Len(lines) - 1)

strip_fences(plan_text) ==
  IF startswith_fence(plan_text) THEN strip(join(slice_1_m1(split(plan_text))))
  ELSE plan_text

WrapLegacy(names) ==
  [i \in 1..Len(names) |-> FileSpec(names[i], <<>>, <<>>)]

\* generate_project_plan, from the outcome of the oracle call to the returned plan
generate_project_plan(o) ==
  LET plan_text == strip_fences(strip(run_ollama(o)))
      plan == json_loads(plan_text)
  IN IF plan = JSONDecodeError THEN PyNone
     ELSE IF plan.tag = "list" THEN PyDict(WrapLegacy(plan.items))
     ELSE plan

PlanOutcomes ==
  { OracleOutcome(TRUE, 0, Empty),
    OracleOutcome(FALSE, 1, <<"doc_site">>),
    OracleOutcome(FALSE, 0, <<"oops">>),
    OracleOutcome(FALSE, 0, <<"doc_cycle">>),
    OracleOutcome(FALSE, 0, <<"<fence>json", "\n", "doc_site", "\n", "<fence>">>),
    OracleOutcome(FALSE, 0, <<"doc_site", "\n">>),
    OracleOutcome(FALSE, 0, <<"<fence>", "\n", "doc_nofiles">>),
    OracleOutcome(FALSE, 0, <<"doc_nofiles">>),
    OracleOutcome(FALSE, 0, <<"doc_list">>),
    OracleOutcome(FALSE, 0, <<"doc_obj">>),
    OracleOutcome(FALSE, 0, <<"doc_num">>),
    OracleOutcome(FALSE, 0, <<"doc_null">>) }

\* Python truthiness of a plan value ("if not plan")
Truthy(plan) ==
  CASE plan.tag = "none" -> FALSE
    [] plan.tag = "num" -> TRUE
    [] plan.tag = "dict" -> plan.has_files
    [] OTHER -> plan.items # <<>>

\* ------------------------------------------------------------------ state
VARIABLES
  AUTO_MODE,      \* the global auto-apply flag
  storage,        \* file name -> content, NoFile when the file does not exist
  context_json,   \* content of context.json of the project
  plan_json,      \* content of plan.json of the project
  pc,             \* where the process is: main, approve, gen, review, ...
  err,            \* the uncaught exception that ended the process, if any
  user_input,     \* main: the command line last read
  ncmds,          \* number of command lines read so far
  npasses,        \* number of plans approved so far
  cp,             \* create_project: description, type, plan, feedback rounds
  files_list,     \* generate_files_from_plan: the normalised plan
  project_type,   \* generate_files_from_plan: its project_type argument
  files_created,  \* generate_files_from_plan: the set of names done
  k,              \* generate_files_from_plan: position of the outer for loop
  stack,          \* the active create_file_entry calls, outermost first
  gen_status,     \* idle or running
  rv,             \* handle_suggestion: the review session
  prompt,         \* the prompt of the oracle call the running handler made last
  reply,          \* the text run_ollama returned to it
  asked,          \* per name: oracle calls made for it in this pass
  reviewed,       \* per name: review sessions started for it in this pass
  loaded          \* the values load_project_plan has returned, in order

vars == <<AUTO_MODE, storage, context_json, plan_json, pc, err, user_input,
          ncmds, npasses, cp, files_list, project_type, files_created, k, stack,
          gen_status, rv, prompt, reply, asked, reviewed, loaded>>

genVars == <<files_list, project_type, files_created, k, stack, gen_status,
             asked, reviewed>>

NoContext == [name |-> "", description |-> <<>>, type |-> ""]
NoPlan == <<"<absent>">>
NoPrompt == [template |-> "none", name |-> <<>>, texts |-> <<>>]
NoCp == [description |-> <<>>, type |-> "", plan |-> PyNone, feedbacks |-> 0]
NoReview ==
  [filename |-> <<>>, suggestion |-> Empty, original_content |-> NoFile,
   caller |-> "none", phase |-> "idle", start |-> NoFile, presented |-> 0,
   decisions |-> 0, revisions |-> 0,
   shown |-> [kind |-> "none", fromfile |-> NoFile, tofile |-> Empty]]

ProjectNames == {"p1"}
Descriptions == {<<"descA">>}
Topics == {<<"topic">>}
Feedbacks == {<<>>, <<"shorter">>}

Init ==
  /\ AUTO_MODE = FALSE
  /\ storage = [n \in Names |-> NoFile]
  /\ context_json = NoContext
  /\ plan_json = NoPlan
  /\ pc = "main"
  /\ err = "none"
  /\ user_input = [cmd |-> "", arg |-> "", file |-> <<>>]
  /\ ncmds = 0
  /\ npasses = 0
  /\ cp = NoCp
  /\ files_list = <<>>
  /\ project_type = "default"
  /\ files_created = {}
  /\ k = 1
  /\ stack = <<>>
  /\ gen_status = "idle"
  /\ rv = NoReview
  /\ prompt = NoPrompt
  /\ reply = Empty
  /\ asked = [n \in Names |-> 0]
  /\ reviewed = [n \in Names |-> 0]
  /\ loaded = <<>>

\* ------------------------------------------------------ handle_suggestion
\* open(filename, "w", encoding="utf-8", errors="replace").write: a character
\* that cannot be encoded is replaced, every other one is written as it is.
Encode(t) == IF t = "<surrogate>" THEN "?" ELSE t
write_text(text) == [i \in 1..Len(text) |-> Encode(text[i])]

\* lines 265-279: what the head of the loop prints, the unified diff from
\* the original content to the suggestion when there is original content, the
\* suggestion itself when there is none
presentation(suggestion, original_content) ==
  IF original_content # NoFile /\ original_content # Empty
  THEN [kind |-> "diff", fromfile |-> original_content, tofile |-> suggestion]
  ELSE [kind |-> "text", fromfile |-> NoFile, tofile |-> suggestion]

\* Entry of handle_suggestion: the first presentation.
StartReview(filename, suggestion, original_content, caller) ==
  [filename |-> filename, suggestion |-> suggestion,
   original_content |-> original_content, caller |-> caller,
   phase |-> "Presenting", start |-> storage[filename], presented |-> 1,
   decisions |-> 0, revisions |-> 0,
   shown |-> presentation(suggestion, original_content)]

\* ------------------------------------------------------------------- main
Command(cmd, arg, file) == [cmd |-> cmd, arg |-> arg, file |-> file]

\* str.lower on the mode words a user types
lower(w) ==
  CASE w = "ON" -> "on"
    [] w = "Off" -> "off"
    [] OTHER -> w

\* the files named in new and edit commands
CmdNames == {A_css}

AutoArgs == {"on", "ON", "off", "Off", "maybe"}

\* input(...) in the loop of main; the locals of the handler that ran for the
\* previous command are gone
ReadCommand(c) ==
  /\ pc = "main"
  /\ ncmds < MaxCmds
  /\ ncmds' = ncmds + 1
  /\ npasses' = npasses
  /\ loaded' = loaded
  /\ user_input' = c
  /\ files_list' = <<>>
  /\ project_type' = "default"
  /\ files_created' = {}
  /\ k' = 1
  /\ stack' = <<>>
  /\ gen_status' = "idle"
  /\ asked' = [n \in Names |-> 0]
  /\ reviewed' = [n \in Names |-> 0]

NoLocals ==
  /\ cp' = NoCp
  /\ rv' = NoReview
  /\ prompt' = NoPrompt
  /\ reply' = Empty

\* user_input in ["quit", "exit"]
CmdQuit ==
  /\ ReadCommand(Command("quit", "", <<>>))
  /\ pc' = "quit"
  /\ NoLocals
  /\ UNCHANGED <<AUTO_MODE, storage, context_json, plan_json, err>>

\* a variant in which the flag, once set, stays set
CmdAuto_sticky(mode) ==
  /\ ReadCommand(Command("auto", mode, <<>>))
  /\ AUTO_MODE' = CASE lower(mode) = "on" -> TRUE
                    [] OTHER -> AUTO_MODE
  /\ NoLocals
  /\ UNCHANGED <<storage, context_json, plan_json, pc, err>>

\* user_input.startswith("auto ")
CmdAuto(mode) ==
  /\ ReadCommand(Command("auto", mode, <<>>))
  /\ AUTO_MODE' = CASE lower(mode) = "on" -> TRUE
                    [] lower(mode) = "off" -> FALSE
                    [] OTHER -> AUTO_MODE
  /\ NoLocals
  /\ UNCHANGED <<storage, context_json, plan_json, pc, err>>

\* user_input.startswith("new ")
CmdNew(filename, topic, o) ==
  LET suggestion == run_ollama(o)
  IN /\ ReadCommand(Command("new", "", filename))
     /\ IF strip(suggestion) = Empty
        THEN /\ NoLocals
             /\ pc' = pc
        ELSE /\ prompt' = [template |-> "draft", name |-> <<>>,
                           texts |-> <<topic>>]
             /\ reply' = suggestion
             /\ rv' = StartReview(filename, suggestion, NoFile, "main")
             /\ cp' = NoCp
             /\ pc' = "review"
     /\ UNCHANGED <<AUTO_MODE, storage, context_json, plan_json, err>>

\* user_input.startswith("edit ")
CmdEdit(filename, o) ==
  LET current_content == storage[filename]
      suggestion == run_ollama(o)
  IN /\ ReadCommand(Command("edit", "", filename))
     /\ IF current_content = NoFile \/ strip(suggestion) = Empty
        THEN /\ NoLocals
             /\ pc' = pc
        ELSE /\ prompt' = [template |-> "edit", name |-> filename,
                           texts |-> <<current_content>>]
             /\ reply' = suggestion
             /\ rv' = StartReview(filename, suggestion, current_content,
                                  "main")
             /\ cp' = NoCp
             /\ pc' = "review"
     /\ UNCHANGED <<AUTO_MODE, storage, context_json, plan_json, err>>

\* the else branch of main: the line is sent to the oracle and the answer
\* printed
CmdChat(o) ==
  /\ ReadCommand(Command("chat", "hello", <<>>))
  /\ run_ollama(o) \in {Empty, T1, T2}   \* printed, kept nowhere
  /\ NoLocals
  /\ UNCHANGED <<AUTO_MODE, storage, context_json, plan_json, pc, err>>

\* --------------------------------------------------------- create_project
\* The head of the approval loop prints the plan with plan.get("files", []):
\* only a dict has get.
CanShowPlan(plan) == plan.tag = "dict"

\* user_input.startswith("project new "): up to the first approval question
CmdProjectNew(project_name, project_description, ptype, o) ==
  LET plan == generate_project_plan(o)
  IN /\ ReadCommand(Command("project new", project_name, <<>>))
     /\ context_json' = [name |-> project_name,
                         description |-> project_description, type |-> ptype]
     /\ IF ~Truthy(plan)
        THEN /\ NoLocals
             /\ UNCHANGED <<pc, err>>
        ELSE /\ prompt' = [template |-> "plan", name |-> <<>>,
                           texts |-> <<project_description>>]
             /\ reply' = run_ollama(o)
             /\ rv' = NoReview
             /\ IF CanShowPlan(plan)
                THEN /\ pc' = "approve"
                     /\ cp' = [description |-> project_description,
                               type |-> ptype, plan |-> plan, feedbacks |-> 0]
                     /\ err' = err
                ELSE /\ pc' = "crashed"
                     /\ err' = "AttributeError"
                     /\ cp' = [description |-> project_description,
                               type |-> ptype, plan |-> plan, feedbacks |-> 0]
     /\ UNCHANGED <<AUTO_MODE, storage, plan_json>>

\* a variant that opens plan.json for appending
save_project_plan_append(plan_file, plan) ==
  IF plan_file = NoPlan THEN json_dump(plan) ELSE plan_file \o json_dump(plan)

\* save_project_plan: plan.json is opened with mode "w", what it held is gone
save_project_plan(plan_file, plan) == json_dump(plan)

\* load_project_plan: None when there is no plan.json
load_project_plan(plan_file) ==
  IF plan_file = NoPlan THEN PyNone ELSE json_load(plan_file)

\* a variant that gives a plan without files one entry to work on
plan_files_placeholder(plan) ==
  IF plan.items = <<>> THEN <<FileSpec(M_md, <<>>, <<>>)>> ELSE plan.items

\* line 208: plan.get("files", []) of a dict
plan_files(plan) == plan.items

\* approve == "y": the plan is saved and generate_files_from_plan begins
ApproveYes ==
  /\ pc = "approve"
  /\ npasses < MaxPasses
  /\ npasses' = npasses + 1
  /\ plan_json' = save_project_plan(plan_json, cp.plan)
  /\ files_list' = plan_files(cp.plan)
  /\ project_type' = cp.type
  /\ files_created' = {}
  /\ k' = 1
  /\ stack' = <<>>
  /\ gen_status' = "running"
  /\ asked' = [n \in Names |-> 0]
  /\ reviewed' = [n \in Names |-> 0]
  /\ pc' = "gen"
  /\ UNCHANGED <<AUTO_MODE, storage, context_json, err, user_input, ncmds,
                 loaded, cp, rv, prompt, reply>>

\* a variant that saves the revised plan as soon as it is made
ApproveFeedback_saves(feedback, o) ==
  LET plan == generate_project_plan(o)
  IN /\ pc = "approve"
     /\ cp.feedbacks < MaxPlanFeedback
     /\ cp' = [cp EXCEPT !.plan = plan, !.feedbacks = @ + 1]
     /\ prompt' = [template |-> "plan", name |-> <<>>,
                   texts |-> <<cp.description, feedback>>]
     /\ reply' = run_ollama(o)
     /\ IF CanShowPlan(plan)
        THEN /\ plan_json' = save_project_plan(plan_json, plan)
             /\ UNCHANGED <<pc, err>>
        ELSE /\ pc' = "crashed"
             /\ err' = "AttributeError"
             /\ UNCHANGED plan_json
     /\ UNCHANGED <<AUTO_MODE, storage, context_json, user_input,
                    ncmds, loaded, npasses, genVars, rv>>

\* approve == "f": the plan is replaced by a revised one, whatever it is, and
\* the loop goes back to printing it
ApproveFeedback(feedback, o) ==
  LET plan == generate_project_plan(o)
  IN /\ pc = "approve"
     /\ cp.feedbacks < MaxPlanFeedback
     /\ cp' = [cp EXCEPT !.plan = plan, !.feedbacks = @ + 1]
     /\ prompt' = [template |-> "plan", name |-> <<>>,
                   texts |-> <<cp.description, feedback>>]
     /\ reply' = run_ollama(o)
     /\ IF CanShowPlan(plan)
        THEN UNCHANGED <<pc, err>>
        ELSE /\ pc' = "crashed"
             /\ err' = "AttributeError"
     /\ UNCHANGED <<AUTO_MODE, storage, context_json, plan_json, user_input,
                    ncmds, loaded, npasses, genVars, rv>>

\* approve == "n"
ApproveNo ==
  /\ pc = "approve"
  /\ pc' = "main"
  /\ NoLocals
  /\ UNCHANGED <<AUTO_MODE, storage, context_json, plan_json, err, user_input,
                 ncmds, loaded, npasses, genVars>>

\* any other answer: the plan is printed and the question asked again
ApproveInvalid ==
  /\ pc = "approve"
  /\ UNCHANGED vars

\* -------------------------------------------------- generate_files_from_plan
\* One active call of create_file_entry: the entry, the position of its
\* "for dep in deps" loop, and (for the record) the dependencies it found
\* missing from files_created and those it descended into.
Frame(file_entry) ==
  [file_entry |-> file_entry, i |-> 1, unmet |-> {}, called |-> {}]

Top == stack[Len(stack)]
TopEntry == Top.file_entry

\* None, where an entry is expected
NoEntry == FileSpec(<<>>, <<>>, <<>>)

\* a variant that makes up an entry for a name the plan does not have
dep_entry_stub(dep) ==
  IF \E j \in 1..Len(files_list) : files_list[j].name = dep
  THEN LET j == CHOOSE j \in 1..Len(files_list) :
                  /\ files_list[j].name = dep
                  /\ \A h \in 1..(j - 1) : files_list[h].name # dep
       IN files_list[j]
  ELSE FileSpec(dep, <<>>, <<>>)

\* next((f for f in files_list if f["name"] == dep), None)
dep_entry(dep) ==
  IF \E j \in 1..Len(files_list) : files_list[j].name = dep
  THEN LET j == CHOOSE j \in 1..Len(files_list) :
                  /\ files_list[j].name = dep
                  /\ \A h \in 1..(j - 1) : files_list[h].name # dep
       IN files_list[j]
  ELSE NoEntry

\* the test of lines 220-222 on the dependency at the loop position
MustCreateDep(d) ==
  /\ d # NoEntry
  /\ d.name \notin files_created
  /\ is_resource_file(d.name, project_type)

\* a variant in which the outer loop passes over the file after the one done
PopFrame_skips_next ==
  /\ stack' = SubSeq(stack, 1, Len(stack) - 1)
  /\ k' = IF Len(stack) = 1 THEN k + 2 ELSE k

\* create_file_entry returns: its frame is popped; when it was called by the
\* outer loop, that loop moves to the next file
PopFrame ==
  /\ stack' = SubSeq(stack, 1, Len(stack) - 1)
  /\ k' = IF Len(stack) = 1 THEN k + 1 ELSE k

\* a variant that gives up the whole pass
OnEmptyReply_abort ==
  /\ stack' = <<>>
  /\ k' = Len(files_list) + 1

\* line 237: create_file_entry returns without a review
OnEmptyReply == PopFrame

\* outer loop, f.get("name") in files_created
GenLoopSkip ==
  /\ pc = "gen" /\ stack = <<>> /\ k <= Len(files_list)
  /\ files_list[k].name \in files_created
  /\ k' = k + 1
  /\ UNCHANGED <<AUTO_MODE, storage, context_json, plan_json, pc, err,
                 user_input, ncmds, loaded, npasses, cp, files_list,
                 project_type,
                 files_created, stack, gen_status, rv, prompt, reply, asked,
                 reviewed>>

\* outer loop, create_file_entry(f)
GenLoopCall ==
  /\ pc = "gen" /\ stack = <<>> /\ k <= Len(files_list)
  /\ files_list[k].name \notin files_created
  /\ stack' = <<Frame(files_list[k])>>
  /\ UNCHANGED <<AUTO_MODE, storage, context_json, plan_json, pc, err,
                 user_input, ncmds, loaded, npasses, cp, files_list,
                 project_type,
                 files_created, k, gen_status, rv, prompt, reply, asked,
                 reviewed>>

\* outer loop exhausted: generate_files_from_plan and create_project return
GenReturn ==
  /\ pc = "gen" /\ stack = <<>> /\ k > Len(files_list)
  /\ gen_status' = "idle"
  /\ pc' = "main"
  /\ files_list' = <<>>
  /\ project_type' = "default"
  /\ files_created' = {}
  /\ k' = 1
  /\ asked' = [n \in Names |-> 0]
  /\ reviewed' = [n \in Names |-> 0]
  /\ NoLocals
  /\ UNCHANGED <<AUTO_MODE, storage, context_json, plan_json, err, user_input,
                 ncmds, loaded, npasses, stack>>

\* "for dep in deps": a dependency that is not created now
DepSkip ==
  /\ pc = "gen" /\ stack # <<>>
  /\ Top.i <= Len(TopEntry.dependencies)
  /\ LET d == dep_entry(TopEntry.dependencies[Top.i])
         miss == IF d # NoEntry /\ d.name \notin files_created
                 THEN {d.name} ELSE {}
     IN /\ ~MustCreateDep(d)
        /\ stack' = [stack EXCEPT ![Len(stack)] =
                       [@ EXCEPT !.i = @ + 1, !.unmet = @ \cup miss]]
  /\ UNCHANGED <<AUTO_MODE, storage, context_json, plan_json, pc, err,
                 user_input, ncmds, loaded, npasses, cp, files_list,
                 project_type,
                 files_created, k, gen_status, rv, prompt, reply, asked,
                 reviewed>>

\* "for dep in deps": create_file_entry(dep_entry), one more level of calls
DepCall ==
  /\ pc = "gen" /\ stack # <<>>
  /\ Top.i <= Len(TopEntry.dependencies)
  /\ Len(stack) < MaxDepth
  /\ LET d == dep_entry(TopEntry.dependencies[Top.i])
     IN /\ MustCreateDep(d)
        /\ stack' = Append([stack EXCEPT ![Len(stack)] =
                              [@ EXCEPT !.i = @ + 1,
                                        !.unmet = @ \cup {d.name},
                                        !.called = @ \cup {d.name}]],
                           Frame(d))
  /\ UNCHANGED <<AUTO_MODE, storage, context_json, plan_json, pc, err,
                 user_input, ncmds, loaded, npasses, cp, files_list,
                 project_type,
                 files_created, k, gen_status, rv, prompt, reply, asked,
                 reviewed>>

\* the same call when the interpreter has no level left: RecursionError,
\* caught nowhere
DepOverflow ==
  /\ pc = "gen" /\ stack # <<>>
  /\ Top.i <= Len(TopEntry.dependencies)
  /\ Len(stack) >= MaxDepth
  /\ MustCreateDep(dep_entry(TopEntry.dependencies[Top.i]))
  /\ pc' = "crashed"
  /\ err' = "RecursionError"
  /\ UNCHANGED <<AUTO_MODE, storage, context_json, plan_json, user_input,
                 ncmds, loaded, npasses, cp, genVars, rv, prompt, reply>>

\* lines 226-232: the prompt for the file of the running call
file_prompt(entry) ==
  IF storage[entry.name] # NoFile
  THEN [template |-> "improve", name |-> entry.name,
        texts |-> <<storage[entry.name]>>]
  ELSE [template |-> "initial", name |-> entry.name,
        texts |-> <<entry.description>>]

\* a variant that marks a file done when the oracle returns nothing for it
GenAsk_marks_skipped(o) ==
  LET suggestion == run_ollama(o)
      name == TopEntry.name
  IN /\ pc = "gen" /\ stack # <<>>
     /\ Top.i > Len(TopEntry.dependencies)
     /\ prompt' = file_prompt(TopEntry)
     /\ reply' = suggestion
     /\ asked' = [asked EXCEPT ![name] = @ + 1]
     /\ IF strip(suggestion) = Empty
        THEN /\ OnEmptyReply
             /\ files_created' = files_created \cup {name}
             /\ UNCHANGED <<pc, rv, reviewed>>
        ELSE /\ rv' = StartReview(name, suggestion, storage[name], "gen")
             /\ reviewed' = [reviewed EXCEPT ![name] = @ + 1]
             /\ pc' = "review"
             /\ UNCHANGED <<stack, k, files_created>>
     /\ UNCHANGED <<AUTO_MODE, storage, context_json, plan_json, err,
                    user_input, ncmds, loaded, npasses, cp, files_list,
                    project_type, gen_status>>

\* lines 226-240: prompt, oracle call, and either the skip or the review
GenAsk(o) ==
  LET suggestion == run_ollama(o)
      name == TopEntry.name
  IN /\ pc = "gen" /\ stack # <<>>
     /\ Top.i > Len(TopEntry.dependencies)
     /\ prompt' = file_prompt(TopEntry)
     /\ reply' = suggestion
     /\ asked' = [asked EXCEPT ![name] = @ + 1]
     /\ IF strip(suggestion) = Empty
        THEN /\ OnEmptyReply
             /\ UNCHANGED <<pc, rv, reviewed>>
        ELSE /\ rv' = StartReview(name, suggestion, storage[name], "gen")
             /\ reviewed' = [reviewed EXCEPT ![name] = @ + 1]
             /\ pc' = "review"
             /\ UNCHANGED <<stack, k>>
     /\ UNCHANGED <<AUTO_MODE, storage, context_json, plan_json, err,
                    user_input, ncmds, loaded, npasses, cp, files_list,
                    project_type,
                    files_created, gen_status>>

\* ------------------------------------------------ handle_suggestion, the loop
\* The loop of handle_suggestion is left (break): the session is over, with
\* the decisions and revision requests it took
EndReview(phase, decisions, revisions) ==
  /\ rv' = [rv EXCEPT !.phase = phase, !.decisions = decisions,
                      !.revisions = revisions]
  /\ pc' = "reviewed"
  /\ UNCHANGED <<AUTO_MODE, context_json, plan_json, err, user_input, ncmds,
                 loaded, npasses, cp, genVars, prompt, reply>>

\* a variant that marks the file created only when the suggestion was applied
ReviewReturn_applied_only ==
  /\ pc = "reviewed"
  /\ IF rv.caller = "gen"
     THEN /\ files_created' = IF rv.phase = "Applied"
                               THEN files_created \cup {TopEntry.name}
                               ELSE files_created
          /\ PopFrame
          /\ pc' = "gen"
          /\ UNCHANGED <<cp, files_list, project_type, gen_status, asked,
                         reviewed>>
     ELSE /\ pc' = "main"
          /\ cp' = NoCp
          /\ UNCHANGED genVars
  /\ rv' = NoReview
  /\ prompt' = NoPrompt
  /\ reply' = Empty
  /\ UNCHANGED <<AUTO_MODE, storage, context_json, plan_json, err, user_input,
                 ncmds, loaded, npasses>>

\* a variant that keeps in files_created only the name just reviewed
ReviewReturn_forgets ==
  /\ pc = "reviewed"
  /\ IF rv.caller = "gen"
     THEN /\ files_created' = {TopEntry.name}
          /\ PopFrame
          /\ pc' = "gen"
          /\ UNCHANGED <<cp, files_list, project_type, gen_status, asked,
                         reviewed>>
     ELSE /\ pc' = "main"
          /\ cp' = NoCp
          /\ UNCHANGED genVars
  /\ rv' = NoReview
  /\ prompt' = NoPrompt
  /\ reply' = Empty
  /\ UNCHANGED <<AUTO_MODE, storage, context_json, plan_json, err, user_input,
                 ncmds, loaded, npasses>>

\* handle_suggestion returns: to main, or into create_file_entry, which adds
\* the name to files_created (line 240) and returns to its own caller
ReviewReturn ==
  /\ pc = "reviewed"
  /\ IF rv.caller = "gen"
     THEN /\ files_created' = files_created \cup {TopEntry.name}
          /\ PopFrame
          /\ pc' = "gen"
          /\ UNCHANGED <<cp, files_list, project_type, gen_status, asked,
                         reviewed>>
     ELSE /\ pc' = "main"
          /\ cp' = NoCp
          /\ UNCHANGED genVars
  /\ rv' = NoReview
  /\ prompt' = NoPrompt
  /\ reply' = Empty
  /\ UNCHANGED <<AUTO_MODE, storage, context_json, plan_json, err, user_input,
                 ncmds, loaded, npasses>>

\* a variant that appends the suggestion to what the file holds
apply_suggestion_append(filename, suggestion) ==
  [storage EXCEPT ![filename] =
     IF @ = NoFile THEN write_text(suggestion) ELSE @ \o write_text(suggestion)]

\* lines 288-292: the suggestion is written over the file
apply_suggestion(filename, suggestion) ==
  [storage EXCEPT ![filename] = write_text(suggestion)]

\* AUTO_MODE: approve = "y" without a question
ReviewAuto ==
  /\ pc = "review" /\ AUTO_MODE
  /\ storage' = apply_suggestion(rv.filename, rv.suggestion)
  /\ EndReview("Applied", rv.decisions, rv.revisions)

\* prompt_user_choice returned "y"
ReviewApply ==
  /\ pc = "review" /\ ~AUTO_MODE
  /\ storage' = apply_suggestion(rv.filename, rv.suggestion)
  /\ EndReview("Applied", rv.decisions + 1, rv.revisions)

\* a variant that empties the file on discard
ReviewDiscard_truncates ==
  /\ pc = "review" /\ ~AUTO_MODE
  /\ EndReview("Discarded", rv.decisions + 1, rv.revisions)
  /\ storage' = [storage EXCEPT ![rv.filename] = Empty]

\* prompt_user_choice returned "n"
ReviewDiscard ==
  /\ pc = "review" /\ ~AUTO_MODE
  /\ EndReview("Discarded", rv.decisions + 1, rv.revisions)
  /\ UNCHANGED storage

\* lines 295-297: the revision prompt
revise_prompt(feedback, suggestion, original_content) ==
  IF original_content # NoFile /\ original_content # Empty
  THEN [template |-> "revise", name |-> <<>>,
        texts |-> <<original_content, feedback, suggestion>>]
  ELSE [template |-> "revise", name |-> <<>>, texts |-> <<feedback, suggestion>>]

\* a variant that asks the oracle nothing when the feedback is empty and shows
\* the same suggestion again
ReviewRevise_skips_empty_feedback(feedback, o) ==
  LET suggestion == IF feedback = <<>> THEN rv.suggestion ELSE run_ollama(o)
      session == [rv EXCEPT !.suggestion = suggestion, !.decisions = @ + 1,
                            !.revisions = @ + 1]
  IN /\ pc = "review" /\ ~AUTO_MODE
     /\ rv.revisions < MaxRevise
     /\ prompt' = IF feedback = <<>> THEN prompt
                  ELSE revise_prompt(feedback, rv.suggestion,
                                     rv.original_content)
     /\ reply' = IF feedback = <<>> THEN reply ELSE suggestion
     /\ IF strip(suggestion) = Empty
        THEN /\ rv' = [session EXCEPT !.phase = "Discarded"]
             /\ pc' = "reviewed"
        ELSE /\ rv' = session
             /\ pc' = "revised"
     /\ UNCHANGED <<AUTO_MODE, storage, context_json, plan_json, err,
                    user_input, ncmds, loaded, npasses, cp, genVars>>

\* prompt_user_choice returned "f": feedback is read and the oracle asked
ReviewRevise(feedback, o) ==
  LET suggestion == run_ollama(o)
      session == [rv EXCEPT !.suggestion = suggestion, !.decisions = @ + 1,
                            !.revisions = @ + 1]
  IN /\ pc = "review" /\ ~AUTO_MODE
     /\ rv.revisions < MaxRevise
     /\ prompt' = revise_prompt(feedback, rv.suggestion, rv.original_content)
     /\ reply' = suggestion
     /\ IF strip(suggestion) = Empty
        THEN /\ rv' = [session EXCEPT !.phase = "Discarded"]
             /\ pc' = "reviewed"
        ELSE /\ rv' = session
             /\ pc' = "revised"
     /\ UNCHANGED <<AUTO_MODE, storage, context_json, plan_json, err,
                    user_input, ncmds, loaded, npasses, cp, genVars>>

\* a variant that diffs the revised suggestion against the one it replaces
ReviewPresent_diff_previous ==
  /\ pc = "revised"
  /\ rv' = [rv EXCEPT !.presented = @ + 1,
                      !.shown = presentation(rv.suggestion,
                                             prompt.texts[Len(prompt.texts)])]
  /\ prompt' = NoPrompt
  /\ pc' = "review"
  /\ UNCHANGED <<AUTO_MODE, storage, context_json, plan_json, err,
                 user_input, ncmds, loaded, npasses, cp, genVars, reply>>

\* back at the head of the loop (lines 262-281): the revised suggestion is
\* shown, the revision prompt is of no further use
ReviewPresent ==
  /\ pc = "revised"
  /\ rv' = [rv EXCEPT !.presented = @ + 1,
                      !.shown = presentation(rv.suggestion,
                                             rv.original_content)]
  /\ prompt' = NoPrompt
  /\ pc' = "review"
  /\ UNCHANGED <<AUTO_MODE, storage, context_json, plan_json, err,
                 user_input, ncmds, loaded, npasses, cp, genVars, reply>>

\* prompt_user_choice: an answer outside y/n/f is asked again
ReviewInvalidChoice ==
  /\ pc = "review" /\ ~AUTO_MODE
  /\ UNCHANGED vars

\* ------------------------------------------------------------ specification
Next ==
  \/ CmdQuit
  \/ \E mode \in AutoArgs : CmdAuto(mode)
  \/ \E f \in CmdNames, t \in Topics, o \in FileOutcomes : CmdNew(f, t, o)
  \/ \E f \in CmdNames, o \in FileOutcomes : CmdEdit(f, o)
  \/ \E o \in FileOutcomes : CmdChat(o)
  \/ \E n \in ProjectNames, d \in Descriptions, t \in ProjectTypes,
        o \in PlanOutcomes : CmdProjectNew(n, d, t, o)
  \/ ApproveYes
  \/ \E fb \in Feedbacks, o \in PlanOutcomes : ApproveFeedback(fb, o)
  \/ ApproveNo
  \/ ApproveInvalid
  \/ GenLoopSkip
  \/ GenLoopCall
  \/ GenReturn
  \/ DepSkip
  \/ DepCall
  \/ DepOverflow
  \/ \E o \in FileOutcomes : GenAsk(o)
  \/ ReviewAuto
  \/ ReviewApply
  \/ ReviewDiscard
  \/ \E fb \in Feedbacks, o \in FileOutcomes : ReviewRevise(fb, o)
  \/ ReviewPresent
  \/ ReviewInvalidChoice
  \/ ReviewReturn

Spec == Init /\ [][Next]_vars

\* ------------------------------------------------------- the plan store
\* save_project_plan and load_project_plan called in any order on the path of
\* one project; cp.plan is the plan the caller passed to the last save.
StoreFiles ==
  { FileSpec(A_css, <<"d1">>, <<>>),
    FileSpec(M_md, <<"say", " ", "\"", "hi", "\"", "\n", "<e-acute>", "\\">>,
             <<A_css, G_js>>),
    FileSpec(X_html, <<>>, <<A_css>>) }

StorePlans ==
  {PyEmptyDict, PyDict(<<>>)}
    \cup {PyDict(<<f>>) : f \in StoreFiles}
    \cup {PyDict(<<f, g>>) : f \in StoreFiles, g \in StoreFiles}

StoreSave(plan) ==
  /\ cp' = [cp EXCEPT !.plan = plan]
  /\ plan_json' = save_project_plan(plan_json, plan)
  /\ UNCHANGED <<AUTO_MODE, storage, context_json, pc, err, user_input, ncmds,
                 npasses, genVars, rv, prompt, reply, loaded>>

StoreLoad ==
  /\ Len(loaded) < MaxLoads
  /\ loaded' = Append(loaded, load_project_plan(plan_json))
  /\ UNCHANGED <<AUTO_MODE, storage, context_json, plan_json, pc, err,
                 user_input, ncmds, npasses, cp, genVars, rv, prompt, reply>>

StoreNext ==
  \/ \E plan \in StorePlans : StoreSave(plan)
  \/ StoreLoad

SpecStore == Init /\ [][StoreNext]_vars

\* ------------------------------------------------------- the plan parser
\* generate_project_plan applied to one oracle reply: reply holds the stdout
\* of the oracle process, cp.plan the plan returned for it.
ReplyTokens ==
  {"<fence>", "<fence>json", "\n", " ", "doc_site", "doc_list", "oops"}

ReplyTexts == UNION {[1..n -> ReplyTokens] : n \in 0..MaxReplyLen}

ParseInit ==
  /\ AUTO_MODE = FALSE
  /\ storage = [n \in Names |-> NoFile]
  /\ context_json = NoContext
  /\ plan_json = NoPlan
  /\ pc = "main"
  /\ err = "none"
  /\ user_input = [cmd |-> "", arg |-> "", file |-> <<>>]
  /\ ncmds = 0
  /\ npasses = 0
  /\ cp = NoCp
  /\ files_list = <<>>
  /\ project_type = "default"
  /\ files_created = {}
  /\ k = 1
  /\ stack = <<>>
  /\ gen_status = "idle"
  /\ rv = NoReview
  /\ prompt = NoPrompt
  /\ reply \in ReplyTexts
  /\ asked = [n \in Names |-> 0]
  /\ reviewed = [n \in Names |-> 0]
  /\ loaded = <<>>

ParsePlan ==
  /\ pc = "main"
  /\ cp' = [cp EXCEPT !.plan =
                generate_project_plan(OracleOutcome(FALSE, 0, reply))]
  /\ pc' = "parsed"
  /\ UNCHANGED <<AUTO_MODE, storage, context_json, plan_json, err, user_input,
                 ncmds, npasses, genVars, rv, prompt, reply, loaded>>

ParseNext == ParsePlan

SpecParse == ParseInit /\ [][ParseNext]_vars

\* The program is sequential: a step of its own that can be taken is taken.
\* The user who is asked for a decision on a suggestion ends by applying or
\* discarding it.
ProgramStep ==
  \/ GenLoopSkip \/ GenLoopCall \/ GenReturn
  \/ DepSkip \/ DepCall \/ DepOverflow
  \/ \E o \in FileOutcomes : GenAsk(o)
  \/ ReviewAuto \/ ReviewPresent \/ ReviewReturn

\* ------------------------------------------------------- one generation pass
\* generate_files_from_plan called on a plan, for a project type, over files
\* that exist or not, with the automatic mode on or off.
ChainPlan ==
  PyDict(<< FileSpec(A_css, <<"d1">>, <<B_js>>),
            FileSpec(B_js, <<"d2">>, <<G_js>>),
            FileSpec(G_js, <<"d3">>, <<>>) >>)

PassPlans ==
  {SitePlan, ChainPlan, CyclePlan, PyDict(<<>>),
   PyDict(WrapLegacy(<<A_css, B_js>>))}

PassStorages ==
  {[n \in Names |-> IF n \in S THEN T1 ELSE NoFile] :
     S \in SUBSET {A_css, X_html}}

PassInit ==
  /\ AUTO_MODE \in BOOLEAN
  /\ storage \in PassStorages
  /\ \E plan \in PassPlans, t \in ProjectTypes :
       /\ cp = [description |-> <<"descA">>, type |-> t, plan |-> plan,
                feedbacks |-> 0]
       /\ context_json = [name |-> "p1", description |-> <<"descA">>,
                          type |-> t]
       /\ plan_json = save_project_plan(NoPlan, plan)
       /\ files_list = plan_files(plan)
       /\ project_type = t
  /\ pc = "gen"
  /\ err = "none"
  /\ user_input = Command("project new", "p1", <<>>)
  /\ ncmds = 1
  /\ npasses = 1
  /\ files_created = {}
  /\ k = 1
  /\ stack = <<>>
  /\ gen_status = "running"
  /\ rv = NoReview
  /\ prompt = NoPrompt
  /\ reply = Empty
  /\ asked = [n \in Names |-> 0]
  /\ reviewed = [n \in Names |-> 0]
  /\ loaded = <<>>

PassNext ==
  \/ GenLoopSkip
  \/ GenLoopCall
  \/ GenReturn
  \/ DepSkip
  \/ DepCall
  \/ DepOverflow
  \/ \E o \in FileOutcomes : GenAsk(o)
  \/ ReviewAuto
  \/ ReviewApply
  \/ ReviewDiscard
  \/ \E fb \in Feedbacks, o \in FileOutcomes : ReviewRevise(fb, o)
  \/ ReviewPresent
  \/ ReviewInvalidChoice
  \/ ReviewReturn

FairPass ==
  /\ PassInit /\ [][PassNext]_vars
  /\ WF_vars(ProgramStep)
  /\ WF_vars(ReviewApply \/ ReviewDiscard)

TypeOK ==
  /\ AUTO_MODE \in BOOLEAN
  /\ pc \in {"main", "approve", "gen", "review", "revised", "reviewed",
            "crashed", "quit"}
  /\ err \in {"none", "AttributeError", "RecursionError"}
  /\ files_created \subseteq Names
  /\ Len(stack) <= MaxDepth

\* ------------------------------------------------------------- properties
\* the outer loop of generate_files_from_plan has run to its end
PassAtEnd == pc = "gen" /\ stack = <<>> /\ k > Len(files_list)

InPass ==
  gen_status = "running" /\ pc \in {"gen", "review", "revised", "reviewed"}

PlanNames == {files_list[j].name : j \in 1..Len(files_list)}

\* C1: a pass over the two-file plan a.css -> b.js -> a.css, both names being
\* resources of the project type, does not end in a RecursionError, and when
\* every oracle call has returned text it ends with both names in
\* files_created.
C1_CycleTerminates ==
  (/\ gen_status = "running"
   /\ files_list = CyclePlan.items
   /\ project_type \in {"website", "misc"})
  => /\ err # "RecursionError"
     /\ (PassAtEnd /\ (\A n \in Names : asked[n] = reviewed[n]))
          => {A_css, B_js} \subseteq files_created

\* C2: no oracle reply to a plan request, first or revised, ends the process
\* with an uncaught error in create_project.
C2_PlanReplyNeverCrashes == ~(pc = "crashed" /\ err = "AttributeError")

\* C3: a session that ends by apply leaves in the file exactly the text the
\* oracle returned last before the decision (the first suggestion, or the
\* latest revision), whatever the file held.
C3_ApplyWritesCurrentSuggestion ==
  [][(pc = "review" /\ rv'.phase = "Applied")
       => storage'[rv.filename] = reply]_vars

\* C3 witness: applied after a revision, over a file that had other content
C3_Witness ==
  /\ rv.phase = "Applied" /\ rv.revisions = MaxRevise /\ rv.caller = "main"
  /\ rv.start = T1
  /\ user_input.cmd = "edit"
  /\ storage[rv.filename] = T2

\* C4: a session that ends without apply leaves the file as it was when the
\* session began, absent if it was absent.
C4_DiscardKeepsStorage ==
  rv.phase = "Discarded" => storage[rv.filename] = rv.start

\* C4 witness: the empty reply to a revision request, on an existing file
C4_Witness ==
  /\ rv.phase = "Discarded" /\ rv.revisions = 1 /\ rv.decisions = 1
  /\ rv.suggestion = Empty /\ rv.start = T1

\* C5: in one pass a name gets at most one review session, and from the moment
\* it is in files_created no oracle call and no session is made for it.
C5_ReviewedAtMostOnce ==
  /\ [](gen_status = "running" =>
          \A n \in Names :
            /\ reviewed[n] <= 1
            /\ (reviewed[n] = 1
                  /\ ~(pc \in {"review", "revised", "reviewed"}
                        /\ rv.filename = n))
                 => n \in files_created)
  /\ [][\A n \in files_created \cap files_created' :
          asked'[n] = asked[n] /\ reviewed'[n] = reviewed[n]]_vars

\* C5 witness: a.css was discarded as a dependency of x.html and the outer
\* loop has gone past its own position
C5_Witness ==
  /\ InPass /\ files_list = SitePlan.items /\ k > 2
  /\ A_css \in files_created /\ storage[A_css] = NoFile
  /\ reviewed[A_css] = 1 /\ X_html \in files_created

\* the names that end with a suffix of the list of each project type, among
\* Names, written out
ExpectedResources(ptype) ==
  CASE ptype = "website" -> {A_css, B_js, G_js}
    [] ptype = "python_classroom" -> {M_md}
    [] OTHER -> {A_css, B_js, M_md, G_js}

TopReady == stack # <<>> /\ Top.i > Len(TopEntry.dependencies)

\* C6: of the dependencies a call found in the plan and not in files_created,
\* it has descended into exactly those whose name has a resource suffix of the
\* project type; they have been put to the oracle when the prompt of the file
\* is built, and no file without such a suffix is ever generated from inside
\* another file.
C6_ResourceDepsFirst ==
  InPass =>
    /\ \A j \in 1..Len(stack) :
         stack[j].called = stack[j].unmet \cap ExpectedResources(project_type)
    /\ \A j \in 2..Len(stack) :
         stack[j].file_entry.name \in ExpectedResources(project_type)
    /\ TopReady => \A d \in Top.called : asked[d] >= 1

\* C6 witness: x.html of a website is about to be put to the oracle, a.css was
\* generated for it first and m.md was left for later
C6_Witness ==
  /\ InPass /\ pc = "gen" /\ TopReady /\ project_type = "website"
  /\ TopEntry.name = X_html
  /\ Top.called = {A_css} /\ Top.unmet = {A_css, M_md}
  /\ A_css \in files_created /\ asked[M_md] = 0

HasMissingDep(f) ==
  \E i \in 1..Len(f.dependencies) : f.dependencies[i] \notin PlanNames

\* C7: nothing is asked, reviewed or written for a dependency name that no
\* file of the plan has, and a file that lists such a name is put to the
\* oracle like any other.
C7_MissingDependencyIgnored ==
  /\ [](gen_status = "running" =>
          \A n \in Names \ PlanNames : asked[n] = 0 /\ reviewed[n] = 0)
  /\ [](PassAtEnd =>
          \A j \in 1..Len(files_list) :
            HasMissingDep(files_list[j]) =>
              /\ asked[files_list[j].name] >= 1
              /\ reviewed[files_list[j].name] = 1
                   <=> files_list[j].name \in files_created)
  /\ [][(gen_status = "running" /\ gen_status' = "running") =>
          \A n \in Names \ PlanNames : storage'[n] = storage[n]]_vars

\* C7 witness: the pass over the site plan is over, x.html (which names g.js)
\* was generated and applied
C7_Witness ==
  /\ PassAtEnd /\ files_list = SitePlan.items /\ project_type = "website"
  /\ X_html \in files_created /\ storage[X_html] # NoFile
  /\ storage[G_js] = NoFile

\* C8: an empty oracle result for a file starts no session and writes nothing,
\* the pass goes on, and at its end every file of the plan has been put to the
\* oracle.
C8_EmptyReplySkipsOnly ==
  /\ [][(/\ pc = "gen"
         /\ \E n \in Names : asked'[n] = asked[n] + 1
         /\ reply' = Empty) =>
          /\ storage' = storage /\ reviewed' = reviewed /\ rv' = rv
          /\ files_created' = files_created
          /\ pc' = "gen" /\ err' = err]_vars
  /\ [](PassAtEnd =>
          \A j \in 1..Len(files_list) : asked[files_list[j].name] >= 1)

\* C8 witness: a.css got an empty result each time, the file that depends on it
\* and the file after it were generated
C8_Witness ==
  /\ PassAtEnd /\ files_list = SitePlan.items
  /\ asked[A_css] >= 2 /\ reviewed[A_css] = 0 /\ A_css \notin files_created
  /\ storage[A_css] = NoFile
  /\ {X_html, M_md} \subseteq files_created

IsAutoOn(c) == c.cmd = "auto" /\ c.arg \in {"on", "ON"}
IsAutoOff(c) == c.cmd = "auto" /\ c.arg \in {"off", "Off"}

\* C9: the flag starts off, is set by auto on, cleared by auto off and left
\* alone by every other command and step; while it is set a session shows its
\* suggestion once and applies it with no decision read, and while it is clear
\* a session changes only with a decision read.
C9_AutoMode ==
  /\ AUTO_MODE = FALSE
  /\ [][IF ncmds' # ncmds
        THEN AUTO_MODE' = (CASE IsAutoOn(user_input') -> TRUE
                             [] IsAutoOff(user_input') -> FALSE
                             [] OTHER -> AUTO_MODE)
        ELSE AUTO_MODE' = AUTO_MODE]_vars
  /\ [][(pc = "review" /\ AUTO_MODE) =>
          /\ rv.presented = 1 /\ rv.decisions = 0
          /\ rv'.phase = "Applied" /\ rv'.decisions = 0
          /\ storage'[rv.filename] = rv.suggestion]_vars
  /\ [][(pc = "review" /\ ~AUTO_MODE /\ (rv' # rv \/ storage' # storage)) =>
          rv'.decisions = rv.decisions + 1]_vars

\* C9 witness: a file of a project was applied in automatic mode
C9_Witness ==
  /\ AUTO_MODE /\ rv.phase = "Applied" /\ rv.decisions = 0
  /\ rv.caller = "gen" /\ storage[rv.filename] = rv.suggestion

\* C10: the prompt built for a file holds the content of each of its
\* dependencies that this pass has created and that is on storage.
C10_PromptHasDependencyContent ==
  (InPass /\ pc = "review" /\ rv.caller = "gen"
     /\ prompt.template \in {"initial", "improve"}) =>
    \A i \in 1..Len(TopEntry.dependencies) :
      LET d == TopEntry.dependencies[i]
      IN (d \in files_created /\ storage[d] # NoFile) =>
           \E t \in 1..Len(prompt.texts) : prompt.texts[t] = storage[d]

\* C11 as stated: in a pass, a name enters files_created only when its content
\* has just been written (the session ended by apply) or the user chose to
\* skip it (a discard decision); the set is empty when the pass starts and no
\* name leaves it.
C11_WrittenOrSkipped ==
  /\ [][(InPass /\ InPass') =>
          /\ files_created \subseteq files_created'
          /\ \A n \in files_created' \ files_created :
               \/ rv.phase = "Applied" /\ storage[n] # NoFile
               \/ rv.phase = "Discarded" /\ rv.suggestion # Empty]_vars
  /\ [][(~InPass /\ InPass') => files_created' = {}]_vars

\* C11 amended: in a pass, every name in files_created is a plan name that has
\* had its one review session, and it entered the set when that session had
\* resolved, by apply (the file holds the suggestion), by a discard decision
\* or by the empty reply to a revision request (the file is as it was, absent
\* included); the set is empty when the pass starts and no name leaves it.
C11_CreatedWereReviewed ==
  /\ [](InPass => \A n \in files_created :
                    n \in PlanNames /\ reviewed[n] = 1)
  /\ [][(InPass /\ InPass') =>
          /\ files_created \subseteq files_created'
          /\ \A n \in files_created' \ files_created :
               /\ pc = "reviewed" /\ rv.filename = n
               /\ \/ /\ rv.phase = "Applied"
                     /\ storage[n] = write_text(rv.suggestion)
                  \/ /\ rv.phase = "Discarded"
                     /\ storage[n] = rv.start]_vars
  /\ [][(~InPass /\ InPass') => files_created' = {}]_vars

\* C11 witness: a.css is in files_created with no file written, next to a name
\* whose file was written
C11_Witness ==
  /\ InPass /\ pc = "gen" /\ files_list = SitePlan.items
  /\ files_created = {A_css, X_html}
  /\ storage[A_css] = NoFile /\ asked[A_css] = 1
  /\ storage[X_html] # NoFile

\* C12: once context.json of a project has been written, no later step (a
\* second project new with the same name, plan feedback, approval, generation)
\* changes the name, description or type it holds.
C12_ContextImmutable ==
  [][context_json # NoContext => context_json' = context_json]_vars

\* C13: a pass over a plan with no files makes no oracle call, starts no review
\* session, writes nothing to storage, and returns with files_created empty.
C13_EmptyPlanDoesNothing ==
  /\ [](InPass /\ cp.plan.items = <<>> =>
          /\ pc = "gen" /\ stack = <<>> /\ files_created = {}
          /\ \A n \in Names : asked[n] = 0 /\ reviewed[n] = 0)
  /\ [][(InPass /\ cp.plan.items = <<>>) =>
          storage' = storage /\ pc' = "main" /\ err' = err]_vars

\* C13 witness: the pass over the approved plan without files is at its end
C13_Witness ==
  /\ InPass /\ PassAtEnd /\ cp.plan = JsonDocs.doc_nofiles
  /\ load_project_plan(plan_json) = JsonDocs.doc_nofiles /\ files_created = {}

\* C14: load_project_plan returns the plan of the last save_project_plan on
\* the path, and None (no error) when nothing was saved there; what plan.json
\* holds depends on the last save only, so saving the same plan again changes
\* nothing.
C14_PlanStoreLastWriteWins ==
  /\ [][Len(loaded') > Len(loaded) =>
          loaded'[Len(loaded')] =
            IF cp.plan \in StorePlans THEN cp.plan ELSE PyNone]_vars
  /\ [][(cp.plan # PyNone /\ cp'.plan = cp.plan /\ loaded' = loaded) =>
          plan_json' = plan_json]_vars
  /\ [](cp.plan # PyNone => plan_json = save_project_plan(NoPlan, cp.plan))
  /\ [](cp.plan = PyNone => plan_json = NoPlan)

\* C14 witness: a load before any save returned None, and a load after two
\* different saves returned the second plan, escapes and all
C14_Witness ==
  /\ Len(loaded) = 2 /\ loaded[1] = PyNone
  /\ loaded[2] = cp.plan /\ Len(cp.plan.items) = 2
  /\ cp.plan.items[1].name = M_md /\ cp.plan.items[2].name = X_html

\* the plan generate_project_plan makes of a text it hands to json.loads
PlanOfDocument(text) ==
  LET v == json_loads(text)
  IN IF v = JSONDecodeError THEN PyNone
     ELSE IF v.tag = "list" THEN PyDict(WrapLegacy(v.items))
     ELSE v

\* what is between the first and the last newline of a text: the text without
\* its first and its last line
BetweenOuterLines(text) ==
  LET nl == {i \in 1..Len(text) : text[i] = "\n"}
  IN IF Cardinality(nl) < 2 THEN <<>>
     ELSE LET first == CHOOSE i \in nl : \A j \in nl : i <= j
              last == CHOOSE i \in nl : \A j \in nl : i >= j
          IN SubSeq(text, first + 1, last - 1)

\* C15: of a reply that begins with a fence marker the parser parses what is
\* left without the first and the last line, so a document between an opening
\* and a closing fence line gives the plan the document alone gives; a reply
\* that does not begin with a fence marker is parsed as it is.
C15_FenceInsensitive ==
  pc = "parsed" =>
    LET text == strip(reply)
    IN /\ startswith_fence(text) =>
            cp.plan = PlanOfDocument(BetweenOuterLines(text))
       /\ \A d \in DOMAIN JsonDocs, open \in {"<fence>", "<fence>json"} :
            text = <<open, "\n", d, "\n", "<fence>">> =>
              cp.plan = PlanOfDocument(<<d>>)
       /\ ~startswith_fence(text) => cp.plan = PlanOfDocument(text)

\* C15 witness: the site plan between two fence lines was parsed to the site
\* plan
C15_Witness ==
  /\ pc = "parsed"
  /\ reply = <<"<fence>json", "\n", "doc_site", "\n", "<fence>">>
  /\ cp.plan = SitePlan

\* the session of handle_suggestion is open before and after the step
SessionGoesOn ==
  pc \in {"review", "revised"} /\ pc' \in {"review", "revised", "reviewed"}

\* C16: the original content of a session is what the file held when the
\* session began and stays that (edit and generation sessions; a new session
\* has none); every presentation of a session with original content is the
\* diff from it to the current suggestion; every revision prompt of such a
\* session begins with it; between rounds only the suggestion moves.
C16_OriginalContentFixed ==
  /\ [](pc \in {"review", "revised"} =>
          /\ (rv.caller = "gen" \/ user_input.cmd = "edit") =>
               rv.original_content = rv.start
          /\ (rv.caller = "main" /\ user_input.cmd = "new") =>
               rv.original_content = NoFile
          /\ storage[rv.filename] = rv.start
          /\ (pc = "review" /\ rv.original_content # NoFile) =>
               /\ rv.shown.kind = "diff"
               /\ rv.shown.fromfile = rv.start
               /\ rv.shown.tofile = rv.suggestion)
  /\ [][SessionGoesOn =>
          /\ rv'.original_content = rv.original_content
          /\ rv'.filename = rv.filename /\ rv'.start = rv.start]_vars
  /\ [][(pc = "review" /\ rv'.revisions = rv.revisions + 1
           /\ rv.original_content # NoFile) =>
          /\ Len(prompt'.texts) = 3
          /\ prompt'.texts[1] = rv.start
          /\ prompt'.texts[3] = rv.suggestion
          /\ rv'.suggestion = reply']_vars

\* C16 witness: an edit session over a file holding v1 shows, after a revision
\* that replaced the suggestion v2 by v1, the diff from v1
C16_Witness ==
  /\ pc = "review" /\ user_input.cmd = "edit" /\ rv.presented = 2
  /\ rv.start = T1 /\ rv.original_content = T1
  /\ rv.shown.fromfile = T1 /\ rv.suggestion = T1 /\ reply = T1

\* the oracle call of a revise round: a revision prompt that holds the feedback
\* read and the suggestion under review, and the reply to it
RevisionCall ==
  /\ prompt'.template = "revise"
  /\ Len(prompt'.texts) >= 2
  /\ prompt'.texts[Len(prompt'.texts) - 1] \in Feedbacks
  /\ prompt'.texts[Len(prompt'.texts)] = rv.suggestion
  /\ rv'.revisions = rv.revisions + 1
  /\ rv'.suggestion = reply'

DepsOf(a) ==
  {d \in PlanNames : \E j \in 1..Len(files_list) :
     /\ files_list[j].name = a
     /\ \E i \in 1..Len(files_list[j].dependencies) :
          files_list[j].dependencies[i] = d}

RECURSIVE ReachedFrom(_, _)
ReachedFrom(a, n) ==
  IF n = 0 THEN {}
  ELSE DepsOf(a) \cup UNION {ReachedFrom(d, n - 1) : d \in DepsOf(a)}

AcyclicPlan ==
  \A a \in PlanNames : a \notin ReachedFrom(a, Cardinality(PlanNames))

\* every oracle call of the pass for a file has returned text
AllAnswered == \A n \in Names : asked[n] = reviewed[n]

\* C18: a pass over a plan without dependency cycle, in which every session
\* is resolved, reaches the end of the plan unless an oracle call returns
\* nothing; when every call has returned text it ends with files_created the
\* set of plan names, one oracle call and one session for each, and no session
\* of a file begins before the sessions of its resource dependencies are over.
C18_AcyclicPassCompletes ==
  /\ [](InPass /\ AcyclicPlan =>
          /\ err = "none"
          /\ (PassAtEnd /\ AllAnswered) =>
               /\ files_created = PlanNames
               /\ \A n \in PlanNames : asked[n] = 1 /\ reviewed[n] = 1
          /\ (AllAnswered /\ pc \in {"review", "revised", "reviewed"}) =>
               \A d \in DepsOf(rv.filename) :
                 d \in ExpectedResources(project_type) => d \in files_created)
  /\ (InPass /\ AcyclicPlan) ~> (PassAtEnd \/ ~AllAnswered)

\* C18 witness: the pass over the chain a.css -> b.js -> g.js is at its end,
\* every call was answered and the three files are created, one of them
\* discarded
C18_Witness ==
  /\ InPass /\ PassAtEnd /\ files_list = ChainPlan.items /\ AllAnswered
  /\ project_type = "website"
  /\ files_created = {A_css, B_js, G_js}
  /\ storage[G_js] # NoFile /\ storage[B_js] = NoFile

\* C19: an empty oracle result for a file leaves its name out of files_created;
\* a name that is not in files_created is entered again when the outer loop
\* comes to it and when a file that names it as a resource dependency is
\* entered, and every entry ends in an oracle call for it; so a name can be
\* asked more than once in a pass, and it is reviewed at most once.
C19_SkippedStaysEligible ==
  /\ [][(pc = "gen" /\ reply' = Empty /\ stack # <<>>
           /\ asked'[TopEntry.name] = asked[TopEntry.name] + 1) =>
          /\ TopEntry.name \notin files_created'
          /\ reviewed' = reviewed /\ pc' = "gen"]_vars
  /\ [][(InPass /\ pc = "gen" /\ stack = <<>> /\ k <= Len(files_list)
           /\ files_list[k].name \notin files_created) =>
          (stack' # <<>> /\ stack'[1].file_entry = files_list[k])]_vars
  /\ [][(InPass /\ pc = "gen" /\ stack # <<>>
           /\ Top.i <= Len(TopEntry.dependencies)
           /\ Len(stack) < MaxDepth
           /\ TopEntry.dependencies[Top.i] \in
                (PlanNames \cap ExpectedResources(project_type))
                  \ files_created) =>
          (/\ Len(stack') = Len(stack) + 1
           /\ stack'[Len(stack')].file_entry.name
                = TopEntry.dependencies[Top.i])]_vars
  /\ [][(InPass /\ pc = "gen" /\ TopReady) =>
          asked'[TopEntry.name] = asked[TopEntry.name] + 1]_vars
  /\ [](InPass => \A n \in Names : reviewed[n] <= 1
                                    /\ reviewed[n] <= asked[n])

\* C19 witness: a.css got nothing as a dependency of x.html and again at its
\* own position, and was asked a third time for m.md, reviewed and created
C19_Witness ==
  /\ InPass /\ PassAtEnd /\ files_list = SitePlan.items
  /\ project_type = "website"
  /\ asked[A_css] = 3 /\ reviewed[A_css] = 1
  /\ files_created = {X_html, A_css, M_md}

\* C20: plan.json is written only by the answer y to the approval question,
\* and then holds the plan on display, the revised one after feedback; no
\* oracle call for a file is made before that write; the answer n goes back to
\* main with plan.json and every file as they were; any answer other than y, n
\* and f leaves everything as it is, the question included.
C20_PlanSavedOnApproval ==
  /\ [][plan_json' # plan_json => (pc = "approve" /\ pc' = "gen")]_vars
  /\ [][(pc = "approve" /\ pc' = "gen") =>
          /\ load_project_plan(plan_json') = cp.plan
          /\ cp' = cp /\ storage' = storage
          /\ \A n \in Names : asked'[n] = 0]_vars
  /\ [](pc = "approve" =>
          /\ gen_status = "idle"
          /\ \A n \in Names : asked[n] = 0 /\ reviewed[n] = 0)
  /\ [][(InPass /\ InPass') => (plan_json' = plan_json /\ cp' = cp)]_vars
  /\ [][(pc = "approve" /\ pc' = "main") =>
          /\ plan_json' = plan_json /\ storage' = storage
          /\ gen_status' = "idle"
          /\ \A n \in Names : asked'[n] = 0]_vars
  /\ [][(pc = "approve" /\ pc' = "approve"
           /\ cp'.feedbacks = cp.feedbacks) => UNCHANGED vars]_vars

\* C20 witness: the site plan came as the revision of another plan, was
\* approved and saved, and no file has been asked for yet
C20_Witness ==
  /\ InPass /\ pc = "gen" /\ k = 1 /\ stack = <<>>
  /\ cp.feedbacks = 1 /\ cp.plan = SitePlan
  /\ load_project_plan(plan_json) = SitePlan
  /\ \A n \in Names : asked[n] = 0 /\ storage[n] = NoFile
====
